---- MODULE Spec2Model ----
(***************************************************************************)
(* Model of gripper.py (class Gripper): a driver that commands a gripper   *)
(* through Modbus registers.  The state is the Gripper object, the program *)
(* position of the running method (pc and the stack of return labels) and  *)
(* the register traffic of the running public call (trace).  Each action   *)
(* is one method; each of its disjuncts is one register access of that     *)
(* method, named "<method>:<source line>".  The device is the environment: *)
(* a read of the status register 0x0001 yields any word of DeviceWords,    *)
(* which for the unconstrained device of Spec is all of StatusWords.       *)
(* time.sleep() changes no state and is not a step of its own, except      *)
(* where it is the point a call returns to.                                *)
(***************************************************************************)
EXTENDS Integers, Sequences, FiniteSets, TLC

(* ------------------------------ bounds -------------------------------- *)

\* grip() is tried with every force in 0..ForceMax (1..4 is the valid range)
ForceMax == 5
\* set_position() is tried with targets from -TargetMargin to 100+TargetMargin
TargetMargin == 1

(* ------------------------- program constants -------------------------- *)

STATUS_ERROR == 0
STATUS_OOS == 1
STATUS_MAINTENANCE == 2
STATUS_READY == 3

\* POSITION_MAX = 40.683074951171875 mm = POSITION_MAX_Q18 / 2^18 exactly
POSITION_MAX_Q18 == 10664824

STATUS_REG == \H0001
COMMAND_REG == \H0801
TIMEOUT_REG == \H1120

\* for i in range(1000)
\* (variant: a loop that is one read short)
POLL_RANGE_Wrong == 1000 - 1
POLL_RANGE == 1000

(* --------------------------- register words --------------------------- *)

\* bin(value)[2:].zfill(16): the 16 binary digits, most significant first
\* (in the recursive operators the argument of the inner call is bound to
\* its value by CHOOSE, so that it is computed once)
RECURSIVE bin(_)
bin(value) ==
  IF value = 0 THEN <<>>
  ELSE CHOOSE s \in {Append(bin(half), value % 2) : half \in {value \div 2}} :
         TRUE

RECURSIVE zfill(_, _)
zfill(s, width) ==
  IF Len(s) >= width THEN s
  ELSE CHOOSE z \in {zfill(padded, width) : padded \in {<<0>> \o s}} : TRUE

\* int(digits, 2)
RECURSIVE int2(_)
int2(digits) ==
  IF digits = <<>> THEN 0
  ELSE CHOOSE n \in {2 * int2(front) + digits[Len(digits)] :
                       front \in {SubSeq(digits, 1, Len(digits) - 1)}} : TRUE

\* s[a:b] of Python, 0-based and half-open
Slice(s, a, b) == SubSeq(s, a + 1, b)

\* get_status: int(bin(value)[2:].zfill(16)[5:8], 2)
\* (variant: the slice counted from the least significant bit)
StatusOf_Wrong(value) == int2(Slice(zfill(bin(value), 16), 8, 11))
StatusOf(value) == int2(Slice(zfill(bin(value), 16), 5, 8))

\* success: int(bin(value)[2:].zfill(16)[1], 2)
SuccessOf(value) == int2(Slice(zfill(bin(value), 16), 1, 2))

\* wait_process_command: process_command = int(bin(value)[2:].zfill(16)[0], 2)
ProcessCommandOf(value) == int2(Slice(zfill(bin(value), 16), 0, 1))

\* wait_process_command: if value > 2 ** 15 - 1
\* (variant: the test reads the success bit's weight)
Accepted_Wrong(value) == value > 2 ^ 14 - 1
Accepted(value) == value > 2 ^ 15 - 1

\* the words the device may show in its status register: each operating
\* status alone, the process-command bit and the success bit alone and
\* together, and words with the bits of no field set
StatusWords ==
  {\H0000, \H0100, \H0200, \H0300, \H8000, \H4000, \HC300, \H0060, \H7BFF,
   \HFBFF}

(* ------------------------------- codec -------------------------------- *)

\* struct.pack('!f', mm) for mm = ((100 - target_position) / 100.) *
\* POSITION_MAX, as the 32-bit integer struct.unpack('!I', ...) gives:
\* mm = n / (100 * 2^18) with n = (100 - target_position) * POSITION_MAX_Q18,
\* rounded to a 24-bit mantissa (to nearest, ties to even).
RECURSIVE ExponentOf(_, _)
ExponentOf(n, e) ==
  IF n * 2 ^ (5 - e) >= 100 * 2 ^ 23 THEN e
  ELSE CHOOSE x \in {ExponentOf(m, less) : m \in {n}, less \in {e - 1}} : TRUE

PackFloat(target_position) ==
  LET n == (100 - target_position) * POSITION_MAX_Q18
      e == ExponentOf(n, 5)
      num == n * 2 ^ (5 - e)
      q == num \div 100
      r == num % 100
      m == IF 2 * r > 100 \/ (2 * r = 100 /\ q % 2 = 1) THEN q + 1 ELSE q
      e2 == IF m = 2 ^ 24 THEN e + 1 ELSE e
      m2 == IF m = 2 ^ 24 THEN 2 ^ 23 ELSE m
  IN  (e2 + 127) * 2 ^ 23 + (m2 - 2 ^ 23)

\* format(..., '032b'): the 32 binary digits, most significant first
PositionBin(target_position) == zfill(bin(PackFloat(target_position)), 32)

(* --------------------------- command frames --------------------------- *)

\* timeout(1) and timeout(0): write_register(0x1120, value)
\* (variants: the two values taken for each other)
TimeoutOn_Wrong == <<0>>
TimeoutOn == <<1>>
TimeoutOff_Wrong == <<1>>
TimeoutOff == <<0>>

\* write_register(0x0801, word): one register
AckArm == <<\H0100>>
AckExecute == <<\H8100>>
ReferenceArm == <<\H0200>>
\* (variant: the top bit missing)
ReferenceExecute_Wrong == <<\H0200>>
ReferenceExecute == <<\H8200>>
MeasureArm == <<\H0700>>
MeasureExecute == <<\H8700>>
CalibrateArm == <<\H0900>>
CalibrateExecute == <<\H8900>>
StopArm == <<\H0800>>
StopExecute == <<\H8800>>
\* (variant: the top bit set, as for the execute phase of a command)
FastStopWord_Wrong == <<\H8000>>
FastStopWord == <<\H0000>>

\* write_registers(0x0801, [...]): four registers
GripArm(f) == <<\H0400, (4 - f) * \H0100, 0, 0>>
\* (variant: the execute frame encodes the force the other way round)
GripExecute_Wrong(f) == <<\H8400, (f - 1) * \H0100, 0, 0>>
GripExecute(f) == <<\H8400, (4 - f) * \H0100, 0, 0>>
ReleaseArm == <<\H0300, 0, 0, 0>>
ReleaseExecute == <<\H8300, 0, 0, 0>>
MoveArm(t) ==
  <<\H0500, 0, int2(Slice(PositionBin(t), 0, 16)),
    int2(Slice(PositionBin(t), 16, 32))>>
\* (variant: the execute frame swaps the two float words)
MoveExecute_Wrong(t) ==
  <<\H8500, 0, int2(Slice(PositionBin(t), 16, 32)),
    int2(Slice(PositionBin(t), 0, 16))>>
MoveExecute(t) ==
  <<\H8500, 0, int2(Slice(PositionBin(t), 0, 16)),
    int2(Slice(PositionBin(t), 16, 32))>>

(* ------------------------------- state -------------------------------- *)

VARIABLES
  session,          \* "none": no Gripper object; "constructing"; "open"
  status,           \* self.status
  call,             \* the running (or last) public call: [name, arg]
  force,            \* grip's parameter
  target_position,  \* set_position's parameter
  i,                \* wait_process_command: reads its loop has made
  process_command,  \* wait_process_command's local of that name
  pc,               \* "idle", or the label of the next step
  stack,            \* return labels of the callers, innermost first
  trace,            \* register accesses of the running (or last) public call
  result,           \* "running", "returned", or the exception raised
  device,           \* what the gripper at the other end is doing
  reg,              \* the word a "register" device holds in 0x0001
  pc2               \* a second caller of fast_stop: "idle", label or "done"

vars ==
  <<session, status, call, force, target_position, i, process_command,
    pc, stack, trace, result, device, reg, pc2>>

\* an argument: an int, or a value of another type
Int_(v) == [isInt |-> TRUE, v |-> v]
NotInt == [isInt |-> FALSE, v |-> 0]
NoArg == Int_(0)

\* a register write, and a read of the status register with what the code
\* extracted from the word read
Write(addr, val) == [op |-> "write", addr |-> addr, as |-> "frame", val |-> val]
Read(as, x) == [op |-> "read", addr |-> STATUS_REG, as |-> as, val |-> <<x>>]

(* ------------------------------- device ------------------------------- *)

\* The gripper at the other end of the link is the environment of the class.
\* `device` names what it is doing:
\*   "any"           every read yields any word of StatusWords
\*   "unreachable"   client.connect() fails
\*   "pending"       the command in progress has not succeeded: Success is 0
\*   "settled"       the command has succeeded: Success is 1 from now on
\*   "error"         in Error, until the error is acknowledged
\*   "acknowledged"  out of Error, not referenced yet
\*   "referenced"    Ready, after the reference run
\*   "faulted"       in Error again, after having been Ready
\*   "register"      the status register holds the word `reg`

\* the fields of a status word, as the gripper sets them
OperatingStatusIn(word) == (word \div 2^8) % 2^3
SuccessIn(word) == (word \div 2^14) % 2

\* every word a 16-bit register can hold
AllWords == 0 .. 2^16 - 1

\* the words a read of 0x0001 can yield
DeviceWords ==
  CASE device = "any" -> StatusWords
    [] device = "unreachable" -> {}
    [] device = "pending" -> {w \in StatusWords : SuccessIn(w) = 0}
    [] device = "settled" -> {w \in StatusWords : SuccessIn(w) = 1}
    [] device \in {"error", "faulted"} ->
         {w \in StatusWords : OperatingStatusIn(w) = STATUS_ERROR}
    [] device = "acknowledged" ->
         {w \in StatusWords : OperatingStatusIn(w) # STATUS_ERROR}
    [] device = "referenced" ->
         {w \in StatusWords : OperatingStatusIn(w) = STATUS_READY}
    [] device = "register" -> {reg}

\* client.connect()
Connects(d) == d # "unreachable"

\* what a write makes of the device: the acknowledge command takes it out of
\* Error, the reference run makes it Ready
DeviceAfter(d, addr, val) ==
  IF d \in {"error", "faulted"} /\ addr = COMMAND_REG /\ val = AckExecute
  THEN "acknowledged"
  ELSE IF d = "acknowledged" /\ addr = COMMAND_REG /\ val = ReferenceExecute
  THEN "referenced"
  ELSE d

\* the command in progress succeeds
DeviceSettles ==
  /\ device = "pending"
  /\ device' = "settled"
  /\ UNCHANGED <<session, status, call, force, target_position, i,
                 process_command, pc, stack, trace, result, reg, pc2>>

\* between two operations of the session, a new error occurs
DeviceFaults ==
  /\ device = "referenced"
  /\ session = "open"
  /\ pc = "idle"
  /\ device' = "faulted"
  /\ UNCHANGED <<session, status, call, force, target_position, i,
                 process_command, pc, stack, trace, result, reg, pc2>>

(* ------------------------------ control ------------------------------- *)

Goto(label) == pc' = label /\ UNCHANGED <<stack, result, pc2>>

CallTo(entry, ret) ==
  pc' = entry /\ stack' = <<ret>> \o stack /\ UNCHANGED <<result, pc2>>

Return ==
  IF stack = <<>>
  THEN pc' = "idle" /\ result' = "returned" /\ UNCHANGED <<stack, pc2>>
  ELSE pc' = Head(stack) /\ stack' = Tail(stack) /\ UNCHANGED <<result, pc2>>

\* raise Exception(...): nothing in the class catches it, the public call ends.
\* The exception is named by the check that raised it.
Raise(exception) ==
  pc' = "idle" /\ stack' = <<>> /\ result' = exception /\ UNCHANGED pc2

\* client.write_register(s)(addr, val)
DoWrite(addr, val) ==
  /\ trace' = Append(trace, Write(addr, val))
  /\ device' = DeviceAfter(device, addr, val)
  /\ UNCHANGED <<reg, session, status, call, force, target_position, i,
                 process_command>>

\* a step without register access
NoIO ==
  UNCHANGED <<device, reg, session, status, call, force, target_position, i,
              process_command, trace>>

\* self.get_status(): one read, decoded into self.status
DoGetStatus ==
  \E value \in DeviceWords :
    /\ status' = StatusOf(value)
    /\ trace' = Append(trace, Read("status", StatusOf(value)))
    /\ UNCHANGED <<device, reg, session, call, force, target_position, i, process_command>>

\* no Gripper object yet
Start ==
  /\ session = "none"
  /\ status = STATUS_ERROR  \* not read before __init__ assigns it
  /\ call = [name |-> "none", arg |-> NoArg]
  /\ force = NoArg
  /\ target_position = NoArg
  /\ i = 0
  /\ process_command = 0
  /\ pc = "idle"
  /\ stack = <<>>
  /\ trace = <<>>
  /\ result = "returned"
  /\ reg = 0
  /\ pc2 = "idle"

Init == Start /\ device \in {"any", "unreachable"}

(* ------------------------------ methods ------------------------------- *)

\* Gripper(ip_adress): the isinstance check, client.connect(), then __init__'s
\* body
\* if not self.client.connect()
\* (variant: the result of connect() ignored)
ConnectFailed_Wrong(d) == FALSE
ConnectFailed(d) == ~Connects(d)

Construct ==
  /\ pc = "idle"
  /\ session = "none"
  /\ \E isStr \in BOOLEAN :
       /\ call' = [name |-> "__init__", arg |-> NoArg]
       /\ trace' = <<>>
       /\ stack' = <<>>
       /\ UNCHANGED <<device, reg, pc2, status, force, target_position, i,
                      process_command>>
       /\ IF ~isStr
          THEN pc' = "idle" /\ result' = "TypeError" /\ UNCHANGED session
          ELSE IF ConnectFailed(device)
          THEN pc' = "idle" /\ result' = "ConnectError" /\ UNCHANGED session
          ELSE pc' = "__init__:26" /\ result' = "running"
               /\ session' = "constructing"

init ==
  \/ /\ pc = "__init__:26"
     /\ DoGetStatus
     /\ Goto("__init__:27")
  \/ /\ pc = "__init__:27"
     /\ DoWrite(TIMEOUT_REG, TimeoutOff)
     /\ Goto("__init__:29")
  \/ /\ pc = "__init__:29"
     /\ NoIO
     /\ CallTo("acknowledge:54", "__init__:31")
  \/ /\ pc = "__init__:31"
     /\ NoIO
     /\ CallTo("reference:67", "__init__:end")
  \/ /\ pc = "__init__:end"
     /\ session' = "open"
     /\ UNCHANGED <<device, reg, status, call, force, target_position, i,
                    process_command,
                    trace>>
     /\ Return

acknowledge ==
  \/ /\ pc = "acknowledge:54"
     /\ DoWrite(COMMAND_REG, AckArm)
     /\ Goto("acknowledge:56")
  \/ /\ pc = "acknowledge:56"
     /\ DoWrite(COMMAND_REG, AckExecute)
     /\ Return

\* handle_errors: if self.status == self.STATUS_ERROR
\* (variants: the wrong status constant; a test that is too wide)
IsError_Wrong(st) == st = STATUS_READY
IsError_Wider(st) == st = STATUS_ERROR \/ st = STATUS_MAINTENANCE
IsError(st) == st = STATUS_ERROR

\* handle_errors: elif self.status == self.STATUS_OOS
\* (variant: compared with the wrong constant)
IsOutOfSpec_Wrong(st) == st = STATUS_READY
IsOutOfSpec(st) == st = STATUS_OOS

handle_errors ==
  \/ /\ pc = "handle_errors:311"
     /\ DoGetStatus
     /\ Goto("handle_errors:312")
  \/ /\ pc = "handle_errors:312"
     /\ NoIO
     /\ IF IsError(status)
        THEN CallTo("acknowledge:54", "handle_errors:314")
        ELSE IF IsOutOfSpec(status)
        THEN Goto("handle_errors:316")
        ELSE Return
  \/ /\ pc = "handle_errors:314"
     /\ NoIO
     /\ Return
  \/ /\ pc = "handle_errors:316"
     /\ DoWrite(TIMEOUT_REG, TimeoutOn)
     /\ Goto("handle_errors:318")
  \/ /\ pc = "handle_errors:318"
     /\ DoWrite(TIMEOUT_REG, TimeoutOff)
     /\ Goto("handle_errors:320")
  \/ /\ pc = "handle_errors:320"
     /\ NoIO
     /\ CallTo("acknowledge:54", "handle_errors:321")
  \/ /\ pc = "handle_errors:321"
     /\ NoIO
     /\ Return

reference ==
  \/ /\ pc = "reference:67"
     /\ NoIO
     /\ CallTo("handle_errors:311", "reference:68")
  \/ /\ pc = "reference:68"
     /\ DoWrite(COMMAND_REG, ReferenceArm)
     /\ Goto("reference:70")
  \/ /\ pc = "reference:70"
     /\ DoWrite(COMMAND_REG, ReferenceExecute)
     /\ Return

measure_stroke ==
  \/ /\ pc = "measure_stroke:83"
     /\ NoIO
     /\ CallTo("handle_errors:311", "measure_stroke:84")
  \/ /\ pc = "measure_stroke:84"
     /\ DoWrite(COMMAND_REG, MeasureArm)
     /\ Goto("measure_stroke:86")
  \/ /\ pc = "measure_stroke:86"
     /\ DoWrite(COMMAND_REG, MeasureExecute)
     /\ Return

calibrate ==
  \/ /\ pc = "calibrate:99"
     /\ NoIO
     /\ CallTo("handle_errors:311", "calibrate:100")
  \/ /\ pc = "calibrate:100"
     /\ DoWrite(COMMAND_REG, CalibrateArm)
     /\ Goto("calibrate:102")
  \/ /\ pc = "calibrate:102"
     /\ DoWrite(COMMAND_REG, CalibrateExecute)
     /\ Return

stop ==
  \/ /\ pc = "stop:217"
     /\ NoIO
     /\ CallTo("handle_errors:311", "stop:218")
  \/ /\ pc = "stop:218"
     /\ DoWrite(COMMAND_REG, StopArm)
     /\ Goto("stop:220")
  \/ /\ pc = "stop:220"
     /\ DoWrite(COMMAND_REG, StopExecute)
     /\ Return

\* self.wait_process_command(): the call, which starts the loop
CallWait(ret) ==
  /\ i' = 0
  /\ process_command' = 0
  /\ UNCHANGED <<device, reg, session, status, call, force, target_position, trace>>
  /\ CallTo("wait_process_command:290", ret)

wait_process_command ==
  \/ /\ pc = "wait_process_command:290"
     /\ i < POLL_RANGE
     /\ \E value \in DeviceWords :
          /\ process_command' = ProcessCommandOf(value)
          /\ UNCHANGED <<device, reg, session, status, call, force, target_position>>
          /\ IF Accepted(value)
             THEN /\ trace' = Append(trace, Read("accepted", ProcessCommandOf(value)))
                  /\ i' = 0
                  /\ Return
             ELSE /\ i' = i + 1
                  /\ UNCHANGED trace
                  /\ Goto("wait_process_command:290")
  \/ /\ pc = "wait_process_command:290"
     /\ i >= POLL_RANGE
     /\ DoWrite(TIMEOUT_REG, TimeoutOn)
     /\ Goto("wait_process_command:297")
  \/ /\ pc = "wait_process_command:297"
     /\ DoWrite(TIMEOUT_REG, TimeoutOff)
     /\ Goto("wait_process_command:299")
  \/ /\ pc = "wait_process_command:299"
     /\ NoIO
     /\ CallTo("acknowledge:54", "wait_process_command:end")
  \/ /\ pc = "wait_process_command:end"
     /\ i' = 0
     /\ UNCHANGED <<device, reg, session, status, call, force, target_position,
                    process_command, trace>>
     /\ Return

\* while self.success() != 1
\* (variant: the test inverted)
KeepWaiting_Wrong(has_success) == has_success # 0
KeepWaiting(has_success) == has_success # 1

\* one turn of the loop that waits for success: a read of the status word;
\* the loop's last read is recorded, the others leave the state as it is
WaitSuccess ==
  \E value \in DeviceWords :
    IF KeepWaiting(SuccessOf(value))
    THEN UNCHANGED vars
    ELSE /\ trace' = Append(trace, Read("success", SuccessOf(value)))
         /\ UNCHANGED <<device, reg, session, status, call, force, target_position, i,
                        process_command>>
         /\ Return

\* grip: if not (1 <= force <= 4)
ForceInRange(f) == 1 <= f /\ f <= 4

grip ==
  \/ /\ pc = "grip:115"
     /\ NoIO
     /\ IF ~force.isInt
        THEN Raise("TypeError")
        ELSE CallTo("handle_errors:311", "grip:120")
  \/ /\ pc = "grip:120"
     /\ NoIO
     /\ IF ~ForceInRange(force.v)
        THEN Raise("RangeError")
        ELSE Goto("grip:123")
  \/ /\ pc = "grip:123"
     /\ DoWrite(COMMAND_REG, GripArm(force.v))
     /\ Goto("grip:125")
  \/ /\ pc = "grip:125"
     /\ DoWrite(COMMAND_REG, GripExecute(force.v))
     /\ Goto("grip:126")
  \/ /\ pc = "grip:126"
     /\ CallWait("grip:130")
  \/ /\ pc = "grip:130"
     /\ WaitSuccess

release ==
  \/ /\ pc = "release:144"
     /\ NoIO
     /\ CallTo("handle_errors:311", "release:145")
  \/ /\ pc = "release:145"
     /\ DoWrite(COMMAND_REG, ReleaseArm)
     /\ Goto("release:147")
  \/ /\ pc = "release:147"
     /\ DoWrite(COMMAND_REG, ReleaseExecute)
     /\ Goto("release:148")
  \/ /\ pc = "release:148"
     /\ CallWait("release:152")
  \/ /\ pc = "release:152"
     /\ WaitSuccess

\* set_position: if not (0 <= target_position <= 100)
TargetInRange(t) == 0 <= t /\ t <= 100
\* set_position: elif target_position < 3
\* (variant: the limit off by one)
DelegatesToGrip_Wrong(t) == t < 2
DelegatesToGrip(t) == t < 3
\* set_position: elif target_position > 97
\* (variant: the upper limit off by one)
DelegatesToRelease_Wrong(t) == t > 96
DelegatesToRelease(t) == t > 97

set_position ==
  \/ /\ pc = "set_position:168"
     /\ NoIO
     /\ IF ~target_position.isInt
        THEN Raise("TypeError")
        ELSE CallTo("handle_errors:311", "set_position:173")
  \/ /\ pc = "set_position:173"
     /\ UNCHANGED <<device, reg, session, status, call, target_position, i, process_command,
                    trace>>
     /\ IF ~TargetInRange(target_position.v)
        THEN Raise("RangeError") /\ UNCHANGED force
        ELSE IF DelegatesToGrip(target_position.v)
        THEN force' = Int_(4) /\ CallTo("grip:115", "set_position:177")
        ELSE IF DelegatesToRelease(target_position.v)
        THEN CallTo("release:144", "set_position:180") /\ UNCHANGED force
        ELSE Goto("set_position:186") /\ UNCHANGED force
  \/ /\ pc = "set_position:177"
     /\ NoIO
     /\ Return
  \/ /\ pc = "set_position:180"
     /\ NoIO
     /\ Return
  \/ /\ pc = "set_position:186"
     /\ DoWrite(COMMAND_REG, MoveArm(target_position.v))
     /\ Goto("set_position:188")
  \/ /\ pc = "set_position:188"
     /\ DoWrite(COMMAND_REG, MoveExecute(target_position.v))
     /\ Goto("set_position:189")
  \/ /\ pc = "set_position:189"
     /\ CallWait("set_position:end")
  \/ /\ pc = "set_position:end"
     /\ NoIO
     /\ Return

fast_stop ==
  \/ /\ pc = "fast_stop:204"
     /\ DoGetStatus
     /\ IF status' = STATUS_ERROR
        THEN CallTo("acknowledge:54", "fast_stop:206")
        ELSE Goto("fast_stop:206")
  \/ /\ pc = "fast_stop:206"
     /\ DoWrite(COMMAND_REG, FastStopWord)
     /\ Return

get_status ==
  /\ pc = "get_status:245"
  /\ DoGetStatus
  /\ Return

success ==
  /\ pc = "success:261"
  /\ \E value \in DeviceWords :
       /\ trace' = Append(trace, Read("success", SuccessOf(value)))
       /\ UNCHANGED <<device, reg, session, status, call, force, target_position, i,
                      process_command>>
  /\ Return

timeout ==
  /\ pc = "timeout:43"
  /\ DoWrite(TIMEOUT_REG, <<call.arg.v>>)
  /\ Return

(* ---------------------------- public calls ---------------------------- *)

Forces == {Int_(f) : f \in 0..ForceMax} \cup {NotInt}

Targets ==
  {Int_(t) : t \in {t \in (0 - TargetMargin)..(100 + TargetMargin) :
                       t <= 0 \/ t \in {2, 3, 97, 98} \/ t >= 100}}
  \cup {NotInt}

Calls ==
  {[name |-> n, arg |-> NoArg] :
     n \in {"acknowledge", "reference", "measure_stroke", "calibrate",
            "release", "fast_stop", "stop", "get_status", "success"}}
  \cup {[name |-> "grip", arg |-> f] : f \in Forces}
  \cup {[name |-> "set_position", arg |-> t] : t \in Targets}
  \cup {[name |-> "timeout", arg |-> Int_(v)] : v \in 0..1}

\* the first step of each method
Entry(name) ==
  CASE name = "acknowledge" -> "acknowledge:54"
    [] name = "reference" -> "reference:67"
    [] name = "measure_stroke" -> "measure_stroke:83"
    [] name = "calibrate" -> "calibrate:99"
    [] name = "grip" -> "grip:115"
    [] name = "release" -> "release:144"
    [] name = "set_position" -> "set_position:168"
    [] name = "fast_stop" -> "fast_stop:204"
    [] name = "stop" -> "stop:217"
    [] name = "get_status" -> "get_status:245"
    [] name = "success" -> "success:261"
    [] name = "timeout" -> "timeout:43"

\* the owner of the session calls a method of the Gripper object; calls are
\* sequential: the next one starts when the last has returned or raised
InvokeOf(calls) ==
  /\ pc = "idle"
  /\ pc2 \in {"idle", "done"}
  /\ session = "open"
  /\ \E c \in calls :
       /\ call' = c
       /\ force' = IF c.name = "grip" THEN c.arg ELSE NoArg
       /\ target_position' = IF c.name = "set_position" THEN c.arg ELSE NoArg
       /\ pc' = Entry(c.name)
  /\ i' = 0
  /\ process_command' = 0
  /\ trace' = <<>>
  /\ stack' = <<>>
  /\ result' = "running"
  /\ pc2' = "idle"
  /\ UNCHANGED <<device, reg, session, status>>

Invoke == InvokeOf(Calls)

Next ==
  \/ Construct
  \/ init
  \/ Invoke
  \/ timeout
  \/ acknowledge
  \/ reference
  \/ measure_stroke
  \/ calibrate
  \/ grip
  \/ release
  \/ set_position
  \/ fast_stop
  \/ stop
  \/ get_status
  \/ success
  \/ wait_process_command
  \/ handle_errors

Spec == Init /\ [][Next]_vars

\* The same program on a gripper whose Success bit is 0 until the command in
\* progress succeeds, and 1 from then on; whether and when the command
\* succeeds is left open.
InitPending == Start /\ device = "pending"

NextPending == Next \/ DeviceSettles

SpecPending == InitPending /\ [][NextPending]_vars

\* The operations whose termination is in question, called on an open session
\* with valid arguments, on the gripper of SpecPending.  A method that has a
\* next statement executes it (nothing but the gripper holds the thread up);
\* whether and when the command succeeds is left open.
TermCalls ==
  {c \in Calls :
     /\ c.name \in {"reference", "stop", "calibrate", "measure_stroke",
                    "acknowledge", "fast_stop", "grip", "release",
                    "set_position"}
     /\ c.arg.isInt
     /\ c.name = "grip" => c.arg.v = 1
     /\ c.name = "set_position" => c.arg.v \in {0, 3, 98}}

InvokeTerm == InvokeOf(TermCalls)

Program ==
  \/ InvokeTerm
  \/ acknowledge
  \/ reference
  \/ measure_stroke
  \/ calibrate
  \/ grip
  \/ release
  \/ set_position
  \/ fast_stop
  \/ stop
  \/ wait_process_command
  \/ handle_errors

InitTerm ==
  /\ session = "open"
  /\ device = "pending"
  /\ reg = 0
  /\ status = STATUS_READY
  /\ call = [name |-> "none", arg |-> NoArg]
  /\ force = NoArg
  /\ target_position = NoArg
  /\ i = 0
  /\ process_command = 0
  /\ pc = "idle"
  /\ stack = <<>>
  /\ trace = <<>>
  /\ result = "returned"
  /\ pc2 = "idle"

NextTerm == Program \/ DeviceSettles

SpecTerm == InitTerm /\ [][NextTerm]_vars /\ WF_vars(Program)

\* fast_stop() called from a second context while the owner's grip() or
\* release() waits for success: the same statements as fast_stop and
\* acknowledge, at the second caller's own position pc2.  The two callers
\* share the object and the link; a register access is one step.
abort ==
  \/ /\ pc2 = "idle"
     /\ pc \in {"grip:130", "release:152"}
     /\ pc2' = "fast_stop:204"
     /\ NoIO
     /\ UNCHANGED <<pc, stack, result>>
  \/ /\ pc2 = "fast_stop:204"
     /\ DoGetStatus
     /\ pc2' = IF status' = STATUS_ERROR
               THEN "acknowledge:54" ELSE "fast_stop:206"
     /\ UNCHANGED <<pc, stack, result>>
  \/ /\ pc2 = "acknowledge:54"
     /\ DoWrite(COMMAND_REG, AckArm)
     /\ pc2' = "acknowledge:56"
     /\ UNCHANGED <<pc, stack, result>>
  \/ /\ pc2 = "acknowledge:56"
     /\ DoWrite(COMMAND_REG, AckExecute)
     /\ pc2' = "fast_stop:206"
     /\ UNCHANGED <<pc, stack, result>>
  \/ /\ pc2 = "fast_stop:206"
     /\ DoWrite(COMMAND_REG, FastStopWord)
     /\ pc2' = "done"
     /\ UNCHANGED <<pc, stack, result>>

NextAbort == Next \/ abort

SpecAbort == Init /\ [][NextAbort]_vars

\* The decoding of the status word: an open session on a gripper whose status
\* register holds one word, any of the 2^16, and the two methods that read
\* and decode it.
Queries == {c \in Calls : c.name \in {"get_status", "success"}}

InvokeQuery == InvokeOf(Queries)

InitDecode ==
  /\ session = "open"
  /\ device = "register"
  /\ reg \in AllWords
  /\ status = StatusOf(reg)
  /\ call = [name |-> "none", arg |-> NoArg]
  /\ force = NoArg
  /\ target_position = NoArg
  /\ i = 0
  /\ process_command = 0
  /\ pc = "idle"
  /\ stack = <<>>
  /\ trace = <<>>
  /\ result = "returned"
  /\ pc2 = "idle"

NextDecode == InvokeQuery \/ get_status \/ success

SpecDecode == InitDecode /\ [][NextDecode]_vars

\* The same program on a gripper that is in Error when the session is made,
\* leaves Error when acknowledged and is Ready once referenced; later, between
\* two operations, it may fall into Error again.
InitError == Start /\ device = "error"

NextReactive == Next \/ DeviceFaults

SpecReactive == InitError /\ [][NextReactive]_vars

(* ---------------------------- properties ------------------------------ *)

\* the operation has ended by returning
Done == pc = "idle" /\ result = "returned"

\* the operations that issue a command after error recovery
CommandOps ==
  {"grip", "release", "set_position", "stop", "reference", "calibrate",
   "measure_stroke"}

IsStatusRead(e) == e.op = "read" /\ e.as = "status"
IsCommandWrite(e) == e.op = "write" /\ e.addr = 2049
IsWrite(e) == e.op = "write"
WritesOf(t) == SelectSeq(t, IsWrite)
CommandWritesOf(t) == SelectSeq(t, IsCommandWrite)
From(t, k) == SubSeq(t, k, Len(t))
Upto(t, k) == SubSeq(t, 1, IF k < Len(t) THEN k ELSE Len(t))
IsPrefixOf(a, b) == Len(a) <= Len(b) /\ a = SubSeq(b, 1, Len(a))

W(addr, val) == [op |-> "write", addr |-> addr, as |-> "frame", val |-> val]
StatusRead(st) == [op |-> "read", addr |-> 1, as |-> "status", val |-> <<st>>]

\* the acknowledge pair and the soft reset, as the specification spells them
AckPair == <<W(2049, <<256>>), W(2049, <<33024>>)>>
SoftReset == <<W(4384, <<1>>), W(4384, <<0>>)>> \o AckPair

\* the arm selectors of the stateful commands
ArmSelectors == {256, 512, 768, 1024, 1280, 2048, 1792, 2304}
IsArmFrame(f) == f[1] \in ArmSelectors
IsExecuteFrame(f) == f[1] >= 32768 /\ (f[1] - 32768) \in ArmSelectors
ExecuteOf(f) == [f EXCEPT ![1] = f[1] + 32768]

\* a set_position call that hands over to grip() or release()
HandsOver ==
  /\ call.name = "set_position"
  /\ call.arg.isInt
  /\ call.arg.v \in (0..2) \cup (98..100)

\* the arm selector of the running call's own command (0: it has none)
OwnSelector ==
  CASE call.name = "acknowledge" -> 256
    [] call.name = "reference" -> 512
    [] call.name = "__init__" -> 512
    [] call.name = "release" -> 768
    [] call.name = "grip" -> 1024
    [] call.name = "stop" -> 2048
    [] call.name = "measure_stroke" -> 1792
    [] call.name = "calibrate" -> 2304
    [] call.name = "set_position" ->
         IF ~call.arg.isInt THEN 0
         ELSE IF call.arg.v \in 0..2 THEN 1024
         ELSE IF call.arg.v \in 98..100 THEN 768
         ELSE 1280
    [] OTHER -> 0

IsOwnArm(e) == IsCommandWrite(e) /\ e.val[1] = OwnSelector
IsOwnExecute(e) == IsCommandWrite(e) /\ e.val[1] = OwnSelector + 32768

\* the places of the own arm and execute writes in the trace
OwnArmAt == {k \in 1..Len(trace) : IsOwnArm(trace[k])}
OwnExecuteAt == {k \in 1..Len(trace) : IsOwnExecute(trace[k])}

\* the call's arguments are valid: it raises neither TypeError nor RangeError
ValidCall ==
  /\ call.arg.isInt
  /\ call.name = "grip" => call.arg.v \in 1..4
  /\ call.name = "set_position" => call.arg.v \in 0..100

\* the writes error recovery makes for a status, as the specification spells them
RecoveryFor(st) ==
  CASE st = 0 -> AckPair
    [] st = 1 -> SoftReset
    [] OTHER -> <<>>

(* C1: every stateful command is written to the command register 0x0801 as *)
(* an arm frame directly followed, among the writes to 0x0801, by the same  *)
(* frame with the top bit of its first word set; no execute frame comes     *)
(* without its arm frame; a call that has returned has written the pair of  *)
(* its own command exactly once, and no call ends between the two writes.   *)
C1_TwoPhaseHandshake ==
  LET cw == CommandWritesOf(trace)
      own == {k \in 1..Len(cw) : cw[k].val[1] = OwnSelector}
      ownX == {k \in 1..Len(cw) : cw[k].val[1] = OwnSelector + 32768}
  IN  /\ \A k \in 1..Len(cw) :
           /\ IsArmFrame(cw[k].val) \/ IsExecuteFrame(cw[k].val)
              \/ cw[k].val = <<0>>
           /\ IsArmFrame(cw[k].val) /\ k < Len(cw)
                => cw[k + 1].val = ExecuteOf(cw[k].val)
           /\ IsExecuteFrame(cw[k].val)
                => k > 1 /\ cw[k].val = ExecuteOf(cw[k - 1].val)
           /\ IsArmFrame(cw[k].val) /\ k = Len(cw) => pc # "idle"
      /\ Done /\ OwnSelector # 0 /\ call.name # "acknowledge"
           => /\ Cardinality(own) = 1
              /\ Cardinality(ownX) = 1
              /\ \A k \in own : k + 1 \in ownX
      /\ Done /\ call.name = "acknowledge" => WritesOf(trace) = AckPair

\* a positional move that timed out has returned: recovery, the move pair and
\* the soft reset's acknowledge pair are all in the trace
C1_Witness ==
  /\ Done
  /\ call.name = "set_position"
  /\ call.arg.v = 97
  /\ Len(CommandWritesOf(trace)) = 6

(* C2, as stated: when the status read at the start of a command operation *)
(* (for the constructor: at the start of its reference()) is Error, the     *)
(* writes before the operation's own arm write are one acknowledge pair and *)
(* nothing else.                                                            *)
C2_ErrorRecoveryExactlyOnePair ==
  /\ call.name \in CommandOps /\ trace # <<>> /\ trace[1] = StatusRead(0)
       => \A k \in OwnArmAt : WritesOf(Upto(trace, k - 1)) = AckPair
  /\ call.name = "__init__" /\ Len(trace) >= 5 /\ trace[5] = StatusRead(0)
       => \A k \in OwnArmAt : WritesOf(SubSeq(trace, 6, k - 1)) = AckPair

(* C2, amended: the same, except that set_position with a target below 3 or *)
(* above 97 reads the status a second time inside grip() or release(): the  *)
(* writes before its own arm write are one acknowledge pair, then that      *)
(* second status read, then the recovery the second status calls for        *)
(* (nothing, a further acknowledge pair, or the soft reset).                *)
C2_ErrorRecovery ==
  /\ call.name \in CommandOps /\ trace # <<>> /\ trace[1] = StatusRead(0)
       => \A k \in OwnArmAt :
            IF HandsOver
            THEN /\ k >= 5
                 /\ Upto(trace, 3) = <<StatusRead(0)>> \o AckPair
                 /\ IsStatusRead(trace[4])
                 /\ SubSeq(trace, 5, k - 1) = RecoveryFor(trace[4].val[1])
            ELSE Upto(trace, k - 1) = <<StatusRead(0)>> \o AckPair
  /\ call.name = "__init__" /\ Len(trace) >= 5 /\ trace[5] = StatusRead(0)
       => \A k \in OwnArmAt : SubSeq(trace, 6, k - 1) = AckPair

\* set_position(0) has returned after Error was read twice
C2_Witness ==
  /\ Done
  /\ call.name = "set_position"
  /\ call.arg.v = 0
  /\ Len(trace) >= 6
  /\ trace[1] = StatusRead(0)
  /\ trace[4] = StatusRead(0)
  /\ OwnArmAt # {}

(* C3: when the status read at the start of a command operation (for the   *)
(* constructor: at the start of its reference()) is OutOfSpecification, the *)
(* next four register accesses are the writes 0x1120:=1, 0x1120:=0,         *)
(* 0x0801:=0x0100, 0x0801:=0x8100 in this order, the own arm write comes    *)
(* after them, and a call with valid arguments goes on to it: directly, or  *)
(* for a set_position that hands over, after the second status read and its *)
(* recovery.                                                                *)
C3_OutOfSpecRecovery ==
  /\ call.name \in CommandOps /\ trace # <<>> /\ trace[1] = StatusRead(1)
       => /\ \A k \in 2..Len(trace) : k <= 5 => trace[k] = SoftReset[k - 1]
          /\ \A k \in OwnArmAt : k > 5
          /\ Len(trace) >= 6 /\ ~HandsOver => 6 \in OwnArmAt
          /\ Len(trace) >= 6 /\ HandsOver => IsStatusRead(trace[6])
          /\ Done => OwnArmAt # {}
          /\ Len(trace) < 6 /\ ValidCall => pc # "idle"
  /\ call.name = "__init__" /\ Len(trace) >= 5 /\ trace[5] = StatusRead(1)
       => /\ \A k \in 6..Len(trace) : k <= 9 => trace[k] = SoftReset[k - 5]
          /\ \A k \in OwnArmAt : k = 10
          /\ Done => OwnArmAt # {}

\* stop() has returned after OutOfSpecification was read
C3_Witness ==
  /\ Done
  /\ call.name = "stop"
  /\ trace[1] = StatusRead(1)
  /\ Len(trace) = 7

InWait ==
  \/ pc \in {"wait_process_command:290", "wait_process_command:297",
             "wait_process_command:299", "wait_process_command:end"}
  \/ stack # <<>> /\ Head(stack) = "wait_process_command:end"

(* C5: the acceptance poll makes at most 1000 reads; every read it goes on  *)
(* after had the top bit clear; the read it stops at has the top bit set    *)
(* and directly follows the execute write (the poll writes nothing); the    *)
(* writes of the timed-out path are made after exactly 1000 reads.          *)
C5_BoundedPoll ==
  /\ i <= 1000
  /\ pc = "wait_process_command:290" /\ i > 0 => process_command = 0
  /\ \A k \in 1..Len(trace) :
       trace[k].op = "read" /\ trace[k].as = "accepted"
         => /\ trace[k].val = <<1>>
            /\ k > 1
            /\ IsCommandWrite(trace[k - 1])
            /\ IsExecuteFrame(trace[k - 1].val)
  /\ pc \in {"wait_process_command:297", "wait_process_command:299",
             "wait_process_command:end"} => i = 1000
  /\ stack # <<>> /\ Head(stack) = "wait_process_command:end" => i = 1000

\* the poll has given up and is about to reset the timeout register
C5_Witness ==
  /\ pc = "wait_process_command:297"
  /\ i = 1000
  /\ call.name = "release"

\* the register accesses after the own execute write
AfterExecute ==
  IF OwnExecuteAt = {} THEN <<>>
  ELSE From(trace, (CHOOSE k \in OwnExecuteAt : TRUE) + 1)

PollingOps == {"grip", "release", "set_position"}

(* C6: in grip, release and set_position, when the acceptance poll is       *)
(* exhausted (1000 reads) the writes after the execute write are            *)
(* 0x1120:=1, 0x1120:=0, 0x0801:=0x0100, 0x0801:=0x8100 in this order, all  *)
(* four once the poll method has returned; when a read accepted the         *)
(* command, there is no write after the execute write.                      *)
C6_SoftResetOnTimeout ==
  call.name \in PollingOps /\ AfterExecute # <<>>
    => IF AfterExecute[1].op = "read"
       THEN /\ AfterExecute[1].as = "accepted"
            /\ WritesOf(AfterExecute) = <<>>
       ELSE /\ IsPrefixOf(WritesOf(AfterExecute), SoftReset)
            /\ IsPrefixOf(Upto(AfterExecute, 4), SoftReset)
            /\ InWait => i = 1000
            /\ ~InWait => IsPrefixOf(SoftReset, AfterExecute)

\* grip(2) has returned after a poll that timed out
C6_Witness ==
  /\ Done
  /\ call.name = "grip"
  /\ call.arg.v = 2
  /\ IsPrefixOf(SoftReset, AfterExecute)

\* the acceptance poll of the call was exhausted: the soft reset follows the
\* own execute write
TimedOut == AfterExecute # <<>> /\ AfterExecute[1] = W(4384, <<1>>)

(* C7: when the acceptance poll is exhausted inside grip, release or        *)
(* set_position, the operation ends with a TimedOut outcome; it does not    *)
(* return as if the command had been accepted.                              *)
C7_TimeoutSurfaced ==
  pc = "idle" /\ call.name \in PollingOps /\ TimedOut => result = "TimedOut"

(* C8: a grip with a force outside 1..4 and a set_position with a target    *)
(* outside 0..100 fail without any register read or write.                  *)
C8_RangeErrorBeforeIO ==
  /\ call.name = "grip" /\ call.arg.isInt /\ call.arg.v \notin 1..4
       => trace = <<>> /\ (pc = "idle" => result = "RangeError")
  /\ call.name = "set_position" /\ call.arg.isInt /\ call.arg.v \notin 0..100
       => trace = <<>> /\ (pc = "idle" => result = "RangeError")

\* the second word of the grip frame for each force
ForceWord(f) ==
  CASE f = 1 -> 768 [] f = 2 -> 512 [] f = 3 -> 256 [] f = 4 -> 0

\* the writes of four registers
IsFrame4(e) == IsCommandWrite(e) /\ Len(e.val) = 4

(* C9: a grip(f), f in 1..4, that has returned wrote [0x0400,w,0,0] then    *)
(* [0x8400,w,0,0] with w = 0x0300, 0x0200, 0x0100, 0x0000 for f = 1..4, a   *)
(* release that has returned wrote [0x0300,0,0,0] then [0x8300,0,0,0], and  *)
(* the last register access of both, after the execute write, is a status   *)
(* read whose success flag is 1.                                            *)
C9_GripReleaseComplete ==
  /\ Done /\ call.name = "grip"
       => /\ call.arg.v \in 1..4
          /\ SelectSeq(trace, IsFrame4)
               = <<W(2049, <<1024, ForceWord(call.arg.v), 0, 0>>),
                   W(2049, <<33792, ForceWord(call.arg.v), 0, 0>>)>>
  /\ Done /\ call.name = "release"
       => SelectSeq(trace, IsFrame4)
            = <<W(2049, <<768, 0, 0, 0>>), W(2049, <<33536, 0, 0, 0>>)>>
  /\ Done /\ call.name \in {"grip", "release"}
       => /\ trace[Len(trace)]
               = [op |-> "read", addr |-> 1, as |-> "success", val |-> <<1>>]
          /\ \A k \in OwnExecuteAt : k < Len(trace)
  /\ call.name \in {"grip", "release"} /\ OwnExecuteAt # {}
       /\ trace[Len(trace)].as # "success" => pc # "idle"

\* grip(1) has returned
C9_Witness ==
  /\ Done
  /\ call.name = "grip"
  /\ call.arg.v = 1
  /\ Len(trace) = 5

\* the command-register writes grip(4) (own = 1024) or release() (own = 768)
\* can make when the status read at its start is st: the recovery's
\* acknowledge pair if any, the own pair, and the soft reset's acknowledge
\* pair if the poll timed out
PairOf(own) ==
  <<W(2049, <<own, 0, 0, 0>>), W(2049, <<own + 32768, 0, 0, 0>>)>>
DelegateWrites(own, st) ==
  {CommandWritesOf(RecoveryFor(st)) \o PairOf(own) \o tail :
     tail \in {<<>>, AckPair}}

NoMoveFrame ==
  \A k \in 1..Len(trace) :
    IsCommandWrite(trace[k]) => trace[k].val[1] \notin {1280, 34048}

\* the device showed one operating status at every status read of the call
SteadyStatus ==
  \A j, k \in 1..Len(trace) :
    IsStatusRead(trace[j]) /\ IsStatusRead(trace[k]) => trace[j] = trace[k]

(* C10, as stated: with a device that stays in one operating status, a      *)
(* set_position(p) that has returned made, for p in 0..2, a sequence of     *)
(* command-register writes that grip(4) makes in that status, and for p in  *)
(* 98..100 one that release() makes; it wrote no move frame.                *)
C10_SameWritesAsDelegate ==
  Done /\ HandsOver /\ SteadyStatus
    => /\ CommandWritesOf(trace) \in DelegateWrites(OwnSelector, trace[1].val[1])
       /\ NoMoveFrame

(* C10, amended: a set_position(p) with p in 0..2 or 98..100 first reads    *)
(* the status and runs the recovery for it, and from there on makes the     *)
(* register accesses of grip(4), or release(): a second status read and a   *)
(* sequence of command-register writes that grip(4), or release(), makes    *)
(* when it starts with that status read.  It writes no move frame.  (grip(4)*)
(* and release() called directly make the sequences compared with.)         *)
C10_DelegatesAfterRecovery ==
  /\ Done /\ HandsOver
       => LET n == 1 + Len(RecoveryFor(trace[1].val[1]))
          IN  /\ IsStatusRead(trace[1])
              /\ SubSeq(trace, 2, n) = RecoveryFor(trace[1].val[1])
              /\ Len(trace) > n
              /\ IsStatusRead(trace[n + 1])
              /\ CommandWritesOf(From(trace, n + 1))
                   \in DelegateWrites(OwnSelector, trace[n + 1].val[1])
  /\ HandsOver => NoMoveFrame
  /\ Done /\ call.name = "grip" /\ call.arg.v = 4
       => CommandWritesOf(trace) \in DelegateWrites(1024, trace[1].val[1])
  /\ Done /\ call.name = "release"
       => CommandWritesOf(trace) \in DelegateWrites(768, trace[1].val[1])

\* set_position(2) has returned after recovering twice
C10_Witness ==
  /\ Done
  /\ call.name = "set_position"
  /\ call.arg.v = 2
  /\ trace[1] = StatusRead(0)
  /\ trace[4] = StatusRead(1)

\* the frames of four words written to the command register
FramesOf(t) == SelectSeq(t, LAMBDA e : IsCommandWrite(e) /\ Len(e.val) = 4)

\* a set_position call that moves to the position itself
MovesItself ==
  /\ call.name = "set_position"
  /\ call.arg.isInt
  /\ call.arg.v \in 3..97

(* C11: set_position(p) with 3 <= p <= 97 writes the move arm frame (first  *)
(* word 0x0500, second word 0), then the execute frame (first word 0x8500,  *)
(* the other words the same), then polls for acceptance and returns; none   *)
(* of its reads tests the success flag, so it returns also from a gripper   *)
(* whose Success bit has been 0 in every read.                              *)
C11_MoveWaitsForAcceptanceOnly ==
  MovesItself =>
    LET frames == FramesOf(trace)
    IN  /\ \A k \in 1..Len(trace) : trace[k].as # "success"
        /\ pc = "idle" => result = "returned"
        /\ Len(frames) <= 2
        /\ Len(frames) >= 1
             => /\ frames[1].val[1] = 1280
                /\ frames[1].val[2] = 0
        /\ Len(frames) = 2
             => /\ frames[2].val[1] = 34048
                /\ \A n \in 2..4 : frames[2].val[n] = frames[1].val[n]
        /\ Done
             => /\ Len(frames) = 2
                /\ \/ trace[Len(trace)] = Read("accepted", 1)
                   \/ From(trace, Len(trace) - 3) = SoftReset

\* set_position(3) has returned on the acceptance alone, from a gripper that
\* has never shown Success = 1
C11_Witness ==
  /\ Done
  /\ MovesItself
  /\ call.arg.v = 3
  /\ device = "pending"
  /\ trace[Len(trace)] = Read("accepted", 1)

(* C12: fast_stop reads the status once; if it is Error it writes the       *)
(* acknowledge pair first; in every case its last write is the single word  *)
(* 0x0000 to 0x0801, with no word of the stop itself having the top bit     *)
(* set; it never writes 0x1120; when the status is not Error, the 0x0000    *)
(* write is its only write.                                                 *)
C12_FastStopSingleWrite ==
  call.name = "fast_stop" =>
    /\ pc = "idle" => result = "returned"
    /\ \A k \in 1..Len(trace) :
         /\ IsStatusRead(trace[k]) => k = 1
         /\ IsWrite(trace[k]) => trace[k].addr = 2049
         /\ IsWrite(trace[k]) /\ trace[k].val[1] >= 32768
              => trace[1] = StatusRead(0) /\ k = 3 /\ trace[k].val = <<33024>>
    /\ Done
         => /\ Len(trace) >= 2
            /\ IsStatusRead(trace[1])
            /\ From(trace, 2) =
                 (IF trace[1] = StatusRead(0) THEN AckPair ELSE <<>>)
                   \o <<W(2049, <<0>>)>>

\* fast_stop has returned after reading OutOfSpecification: one write, no
\* soft reset
C12_Witness ==
  /\ Done
  /\ call.name = "fast_stop"
  /\ trace = <<StatusRead(1), W(2049, <<0>>)>>

\* the reference pair, as the specification spells it
ReferencePair == <<W(2049, <<512>>), W(2049, <<33280>>)>>

(* C13: the constructor of a session made while the gripper reports Error   *)
(* writes, in this order, 0x1120:=0, the acknowledge pair 0x0100, 0x8100    *)
(* and the reference pair 0x0200, 0x8200, with no reference write before    *)
(* the acknowledge pair; on a gripper that leaves Error when acknowledged   *)
(* and becomes Ready when referenced, the gripper is Ready when the         *)
(* constructor returns, and a status read made while it is still so reads   *)
(* Ready.                                                                   *)
C13_ConstructFromError ==
  /\ call.name = "__init__" /\ trace # <<>> /\ trace[1] = StatusRead(0)
       => LET w == WritesOf(trace)
          IN  /\ IsPrefixOf(Upto(w, 3), <<W(4384, <<0>>)>> \o AckPair)
              /\ \A k \in 1..Len(w) :
                   w[k].val[1] \in {512, 33280} => k > 3
              /\ Done
                   => /\ Len(w) >= 5
                      /\ From(w, Len(w) - 1) = ReferencePair
                      /\ device \in {"referenced", "faulted"}
  /\ call.name = "get_status" /\ Done /\ device = "referenced"
       => trace = <<StatusRead(3)>>

\* get_status() after the construction has read Ready
C13_Witness ==
  /\ Done
  /\ call.name = "get_status"
  /\ device = "referenced"
  /\ trace = <<StatusRead(3)>>

\* a read in which the code has seen the command accepted (the top bit of
\* the status word) or completed (the success flag)
Confirms(e) ==
  e.op = "read" /\ e.as \in {"accepted", "success"} /\ e.val = <<1>>

(* C14, as stated: among the register accesses of an operation (the         *)
(* constructor and the recovery steps inside an operation included), the    *)
(* execute write of a command is never followed by the arm write of another *)
(* command unless a status read between the two has confirmed that the      *)
(* earlier command was accepted or has completed.                           *)
C14_OneOutstandingCommand ==
  \A j \in 1..Len(trace) : \A k \in (j + 1)..Len(trace) :
    /\ IsCommandWrite(trace[j]) /\ IsExecuteFrame(trace[j].val)
    /\ IsCommandWrite(trace[k]) /\ IsArmFrame(trace[k].val)
    => \E m \in (j + 1)..(k - 1) : Confirms(trace[m])

\* bit n of a 16-bit word, bit 0 being the most significant
BitFromMSB(word, n) == (word \div 2^(15 - n)) % 2

\* every word decodes by the layout: operating status = bits 5..7, success =
\* bit 1, processCommand = bit 0, counted from the most significant bit, and
\* the status values are 0 Error, 1 OutOfSpecification, 2 MaintenanceRequired,
\* 3 Ready
DecodesByLayout ==
  /\ <<STATUS_ERROR, STATUS_OOS, STATUS_MAINTENANCE, STATUS_READY>>
       = <<0, 1, 2, 3>>
  /\ ProcessCommandOf(reg) = BitFromMSB(reg, 0)
  /\ call.name = "get_status" /\ Done
       => /\ trace = <<StatusRead(4 * BitFromMSB(reg, 5)
                                   + 2 * BitFromMSB(reg, 6)
                                   + BitFromMSB(reg, 7))>>
          /\ status = trace[1].val[1]
  /\ call.name = "success" /\ Done
       => trace = <<Read("success", BitFromMSB(reg, 1))>>

(* C15, as stated: every 16-bit status word decodes by the layout (status   *)
(* = bits 5..7, success = bit 1, processCommand = bit 0 from the most       *)
(* significant bit), and the word 0b0000000001100000 decodes to Ready with  *)
(* processCommand = 0 and success = 0.                                      *)
C15_DecodingWithExample ==
  /\ DecodesByLayout
  /\ reg = 96
       => /\ ProcessCommandOf(reg) = 0
          /\ call.name = "get_status" /\ Done
               => trace = <<StatusRead(STATUS_READY)>>
          /\ call.name = "success" /\ Done => trace = <<Read("success", 0)>>

(* C15, amended: every 16-bit status word decodes by the layout; the word   *)
(* 0b0000001100000000 decodes to Ready with processCommand = 0 and success  *)
(* = 0, and the word 0b0000000001100000 decodes to Error with both flags 0. *)
C15_Decoding ==
  /\ DecodesByLayout
  /\ reg \in {768, 96}
       => /\ ProcessCommandOf(reg) = 0
          /\ call.name = "get_status" /\ Done
               => trace = <<StatusRead(IF reg = 768 THEN STATUS_READY
                                        ELSE STATUS_ERROR)>>
          /\ call.name = "success" /\ Done => trace = <<Read("success", 0)>>

\* get_status() has decoded the word 0b0000000001100000
C15_Witness ==
  /\ reg = 96
  /\ call.name = "get_status"
  /\ Done
  /\ trace = <<StatusRead(0)>>

\* the operation is a command operation whose first register access read Ready
StartedReady ==
  /\ call.name \in CommandOps
  /\ trace # <<>>
  /\ trace[1] = StatusRead(3)

(* C16, as stated: when the status read at the start of a command operation *)
(* is Ready, the first write the operation performs is its own arm write to *)
(* 0x0801; no acknowledge write and no write to 0x1120 precedes it.         *)
C16_ReadyFirstWriteIsOwnArm ==
  StartedReady /\ WritesOf(trace) # <<>> => IsOwnArm(WritesOf(trace)[1])

(* C16, amended: when the status read at the start of a command operation  *)
(* is Ready, the operation makes no recovery write for it: its next         *)
(* register access is its own arm write, except in set_position with a      *)
(* target below 3 or above 97, where it is the second status read, made     *)
(* inside grip() or release(); the recovery that second status calls for    *)
(* (none for Ready or MaintenanceRequired) then precedes the arm write.     *)
C16_ReadyNoRecovery ==
  StartedReady /\ Len(trace) >= 2 =>
    IF HandsOver
    THEN /\ IsStatusRead(trace[2])
         /\ LET before == <<trace[1], trace[2]>>
                            \o RecoveryFor(trace[2].val[1])
            IN  /\ IsPrefixOf(Upto(trace, Len(before)), before)
                /\ Len(trace) > Len(before)
                     => IsOwnArm(trace[Len(before) + 1])
    ELSE IsOwnArm(trace[2])

\* set_position(98) has returned after reading Ready, then inside release()
\* OutOfSpecification
C16_Witness ==
  /\ Done
  /\ call.name = "set_position"
  /\ call.arg.v = 98
  /\ Len(trace) >= 7
  /\ trace[1] = StatusRead(3)
  /\ trace[2] = StatusRead(1)
  /\ IsOwnArm(trace[7])

(* C17: when the link's connect() reports failure, the constructor raises,  *)
(* no session object is produced and no register is read or written.        *)
C17_FailedConnectIsFatal ==
  ~Connects(device) =>
    /\ session = "none"
    /\ pc = "idle"
    /\ trace = <<>>
    /\ call.name = "__init__" => result \in {"ConnectError", "TypeError"}

\* the constructor has raised because connect() failed
C17_Witness ==
  /\ ~Connects(device)
  /\ call.name = "__init__"
  /\ result = "ConnectError"
  /\ session = "none"
  /\ trace = <<>>

(* C18: fast_stop run from a second context while grip or release waits in  *)
(* its success loop: the loop only reads, so once that fast_stop has run to *)
(* completion its 0x0000 write is the last write to 0x0801 for as long as   *)
(* the grip or release has not returned, and the grip or release writes     *)
(* nothing, in particular no execute word, after the fast stop.             *)
C18_AbortByFastStop ==
  /\ pc2 = "done"
       => LET cw == CommandWritesOf(trace)
          IN  cw # <<>> /\ cw[Len(cw)] = W(2049, <<0>>)
  /\ pc2 # "idle"
       => \A k \in 1..Len(trace) :
            trace[k] = W(2049, <<0>>)
              => \A m \in (k + 1)..Len(trace) : trace[m].op = "read"

\* grip() has returned after a fast_stop from the second context that found
\* the gripper in Error: the acknowledge pair and 0x0000 are the last writes
C18_Witness ==
  /\ Done
  /\ call.name = "grip"
  /\ pc2 = "done"
  /\ Len(trace) >= 5
  /\ SubSeq(trace, Len(trace) - 3, Len(trace))
       = AckPair \o <<W(2049, <<0>>), Read("success", 1)>>

\* the operations that never wait for success
NeverWaits ==
  \/ call.name \in {"reference", "stop", "calibrate", "measure_stroke",
                    "acknowledge", "fast_stop"}
  \/ MovesItself

\* grip() or release() with valid arguments
WaitsForSuccess == call.name \in {"grip", "release"} /\ ValidCall

\* the register accesses of the running call so far: those in the trace and
\* the reads of the acceptance poll under way
Accesses == Len(trace) + i

(* C19: reference, stop, calibrate, measure_stroke, acknowledge, fast_stop  *)
(* and set_position with a target in 3..97 end after a bounded number of    *)
(* register accesses whatever the gripper reports; grip and release end     *)
(* once the gripper reports success and keeps reporting it, and never       *)
(* return while success has not been reported.                              *)
C19_Termination ==
  /\ [](NeverWaits
          => Accesses <= (IF MovesItself THEN POLL_RANGE + 11 ELSE 7))
  /\ (NeverWaits /\ result = "running") ~> (pc = "idle")
  /\ (WaitsForSuccess /\ result = "running" /\ device = "settled")
       ~> Done
  /\ [](WaitsForSuccess /\ device = "pending" => ~Done)

\* grip() waits in its success loop on a gripper that has not reported
\* success
C19_Witness ==
  /\ call.name = "grip"
  /\ pc = "grip:130"
  /\ device = "pending"

\* the writes to the timeout register 0x1120
TimeoutWritesOf(t) == SelectSeq(t, LAMBDA e : IsWrite(e) /\ e.addr = 4384)

(* C20: in the constructor and in every operation other than a call of     *)
(* timeout() itself, each write of 1 to the timeout register 0x1120 is      *)
(* directly followed by a write of 0 to 0x1120, before any write to 0x0801  *)
(* and before the operation ends; so when the constructor or the operation  *)
(* has ended, the last value it wrote to 0x1120, if any, is 0.              *)
C20_TimeoutRestored ==
  call.name # "timeout" =>
    /\ \A k \in 1..Len(trace) :
         trace[k] = W(4384, <<1>>)
           => IF k < Len(trace)
              THEN trace[k + 1] = W(4384, <<0>>)
              ELSE pc # "idle"
    /\ LET tw == TimeoutWritesOf(trace)
       IN  pc = "idle" /\ tw # <<>> => tw[Len(tw)].val = <<0>>

\* release() has returned after two soft resets: one for OutOfSpecification,
\* one for the acceptance poll that ran out
C20_Witness ==
  /\ Done
  /\ call.name = "release"
  /\ TimeoutWritesOf(trace)
       = <<W(4384, <<1>>), W(4384, <<0>>), W(4384, <<1>>), W(4384, <<0>>)>>

====
